---- MODULE Spec2Model ----
(***************************************************************************)
(* Model of src/src/mpmc.rs: the fixed-capacity lock-free MPMC queue       *)
(* MpMcQueue<T, N> (Vyukov's bounded queue).  One queue, a set of actors   *)
(* (threads or interrupt handlers) that call enqueue and dequeue; every    *)
(* access to shared memory (position load, sequence load, CAS, storage     *)
(* read/write, sequence store) is one atomic step.  Memory is sequentially *)
(* consistent.  compare_exchange_weak is modelled without spurious         *)
(* failures: it fails exactly when the counter differs from `pos`.         *)
(***************************************************************************)
EXTENDS Integers, Sequences, FiniteSets, TLC

VARIABLES
    N,            \* the const generic capacity of this queue instance
    enqueue_pos,  \* MpMcQueue.enqueue_pos
    dequeue_pos,  \* MpMcQueue.dequeue_pos
    sequence,     \* Cell.sequence of every cell of the buffer
    data,         \* Cell.data of every cell of the buffer (MaybeUninit)
    pc,           \* every actor's position in enqueue / dequeue
    pos,          \* the local `pos` of every actor
    item,         \* enqueue's `item` / dequeue's `data` of every actor
    iters,        \* loop iterations the running call completed on its own
    ret,          \* what every actor's last call returned
    threads,      \* the actors that use the queue
    limit,        \* no enqueue is called once enqueue_pos reaches limit
    deqLimit,     \* no dequeue is called once dequeue_pos reaches deqLimit
    inputs,       \* the values the callers pass to enqueue
    solo,         \* the actor that runs while all others are paused, or 0
    live,         \* per cell: holds a value written and not yet read
    outstanding,  \* per value: times accepted minus times returned
    unclaimed,    \* enqueues that returned Ok minus dequeue claims
    sawEmpty,     \* per actor: the queue held no value during its call
    sawFull,      \* per actor: the queue held N values during its call
    effects,      \* per actor: what the running call has done to the queue
    written,      \* the values written and not yet returned, by position
    ref,          \* single-actor use: the reference FIFO's contents
    expect        \* single-actor use: what the reference FIFO returns

vars == <<N, enqueue_pos, dequeue_pos, sequence, data, pc, pos, item, iters,
          ret, threads, limit, deqLimit, inputs, solo, live, outstanding,
          unclaimed, sawEmpty, sawFull, effects, written, ref, expect>>

(***************************************************************************)
(* Bounds of the model.                                                    *)
(***************************************************************************)
NumActors == 2
MaxVal == 1
MaxPos == 3
MaxIters == 3
WrapLimit == 258
Headroom == 2
FewDequeues == 2

Actors == 1..NumActors
Values == 0..MaxVal
Single == {1}

\* A scenario: the capacity N the queue is instantiated with, the actors that
\* use it, the values they enqueue, and how far the positions are driven.
Scenario(n, t, e, d, vs) ==
    [cap |-> n, actors |-> t, enq |-> e, deq |-> d, vals |-> vs]

\* queues shared by all actors
Shared == {Scenario(n, Actors, MaxPos, MaxPos, Values) : n \in {1, 2}}

\* queues used by one actor: small ones with every value, a capacity-2 queue
\* driven past the 8-bit boundaries (tests drain_at_pos255 and
\* full_at_wrapped_pos0), and large ones filled to the brim
Small == {Scenario(n, Single, 2 * n + Headroom, 2 * n + Headroom, Values) :
             n \in {1, 2, 3, 4}}
Wrapped == {Scenario(2, Single, WrapLimit, WrapLimit, {0})}
Large == {Scenario(n, Single, n + Headroom, FewDequeues, {0}) :
             n \in {64, 128, 256}}

\* MaybeUninit::uninit(): no value (a cell never written, a local that holds
\* nothing, a result without a payload)
Uninit == -1

(***************************************************************************)
(* Integer arithmetic of the code.                                         *)
(***************************************************************************)
\* usize arithmetic wraps at the pointer width; 16 bits is the narrowest
\* target, and every width is a multiple of the 8 bits `as i8` keeps
UsizeModulus == 2^16

WrappingAdd(x, y) == (x + y) % UsizeModulus

\* x as i8: the low 8 bits, as a two's complement number
AsI8(x) == LET m == x % 256 IN IF m >= 128 THEN m - 256 ELSE m

\* a subtraction that does not wrap back into 8 bits
PlainSub(a, b) == a - b

\* i8::wrapping_sub
WrappingSubI8(a, b) == AsI8(a - b)

RECURSIVE BitAnd(_, _)
BitAnd(x, y) ==
    IF x = 0 \/ y = 0 THEN 0
    ELSE (IF x % 2 = 1 /\ y % 2 = 1 THEN 1 ELSE 0) + 2 * BitAnd(x \div 2, y \div 2)

\* Self::MASK
MASK == N - 1

\* buffer.add(usize::from(pos & mask))
CellOf(p) == BitAnd(p, MASK)

\* the difference taken on the unsigned low bytes, never negative
EnqDifUnsigned(seq, p) == (seq - p) % 256

\* dif of enqueue: (seq as i8).wrapping_sub(pos as i8)
EnqDif(seq, p) == WrappingSubI8(AsI8(seq), AsI8(p))

\* the sequence compared with pos instead of pos + 1
DeqDifOffByOne(seq, p) == WrappingSubI8(AsI8(seq), AsI8(p))

\* dif of dequeue: (seq as i8).wrapping_sub((pos.wrapping_add(1)) as i8)
DeqDif(seq, p) == WrappingSubI8(AsI8(seq), AsI8(WrappingAdd(p, 1)))

(***************************************************************************)
(* Return values.                                                          *)
(***************************************************************************)
NoRet == [kind |-> "none yet", val |-> Uninit]
Pending == [kind |-> "pending", val |-> Uninit]
RetOk == [kind |-> "Ok", val |-> Uninit]
RetErr(v) == [kind |-> "Err", val |-> v]
RetSome(v) == [kind |-> "Some", val |-> v]
RetNone == [kind |-> "None", val |-> Uninit]

Sequential == Cardinality(threads) = 1

\* what a call has done so far: successful CASes on a position counter,
\* accesses to a cell's storage, stores to a cell's sequence
NoEffect == [cas |-> 0, data |-> 0, seq |-> 0]

(***************************************************************************)
(* The queue's occupancy, as the callers can count it.                     *)
(***************************************************************************)
RECURSIVE SumOver(_, _)
SumOver(f, S) ==
    IF S = {} THEN 0
    ELSE LET x == CHOOSE y \in S : TRUE IN f[x] + SumOver(f, S \ {x})

\* accepted values not yet returned by a completed dequeue
Unreturned(o) == SumOver(o, Values)

EmptyNow(uncl) == uncl = 0

FullNow(o, e, d) == Unreturned(o) = N \/ e - d = N

(***************************************************************************)
(* MpMcQueue::new                                                          *)
(***************************************************************************)
NewQueue(n) ==
    /\ N = n
    /\ sequence = [i \in 0..(n - 1) |-> i]
    /\ data = [i \in 0..(n - 1) |-> Uninit]
    /\ dequeue_pos = 0
    /\ enqueue_pos = 0

Start ==
    /\ pc = [a \in Actors |-> "idle"]
    /\ pos = [a \in Actors |-> 0]
    /\ item = [a \in Actors |-> Uninit]
    /\ iters = [a \in Actors |-> 0]
    /\ ret = [a \in Actors |-> NoRet]
    /\ solo = 0
    /\ live = [i \in 0..(N - 1) |-> FALSE]
    /\ outstanding = [v \in Values |-> 0]
    /\ unclaimed = 0
    /\ sawEmpty = [a \in Actors |-> FALSE]
    /\ sawFull = [a \in Actors |-> FALSE]
    /\ effects = [a \in Actors |-> NoEffect]
    /\ written = {}
    /\ ref = << >>
    /\ expect = NoRet

Configure(sc) ==
    /\ NewQueue(sc.cap)
    /\ threads = sc.actors
    /\ limit = sc.enq
    /\ deqLimit = sc.deq
    /\ inputs = sc.vals
    /\ Start

Init == \E sc \in Shared : Configure(sc)

InitSeq == \E sc \in Small \cup Wrapped \cup Large : Configure(sc)

(***************************************************************************)
(* Bookkeeping shared by the steps.                                        *)
(***************************************************************************)
Config == <<N, threads, limit, deqLimit, inputs>>

MayStep(a) == a \in threads /\ solo \in {0, a}

\* the occupancy flags of the calls in progress follow every step, from the
\* call to the step that returns
Observed(saw, now) ==
    [b \in Actors |->
        IF pc'[b] = "idle" THEN FALSE
        ELSE IF pc[b] = "idle" THEN now
        ELSE IF pc[b] = "returned" THEN saw[b]
        ELSE saw[b] \/ now]

Observe ==
    /\ sawEmpty' = Observed(sawEmpty, EmptyNow(unclaimed'))
    /\ sawFull' = Observed(sawFull, FullNow(outstanding', enqueue_pos', dequeue_pos'))

\* actor a's step was of kind k ("cas", "data", "seq"), or touched nothing
Did(a, k) ==
    effects' = [effects EXCEPT ![a] =
                   IF k = "cas" THEN [@ EXCEPT !.cas = @ + 1]
                   ELSE IF k = "data" THEN [@ EXCEPT !.data = @ + 1]
                   ELSE IF k = "seq" THEN [@ EXCEPT !.seq = @ + 1]
                   ELSE @]

Fresh(a) == effects' = [effects EXCEPT ![a] = NoEffect]

\* a call returns r to its caller, and nobody is paused any more
Return(a, r) ==
    /\ pc' = [pc EXCEPT ![a] = "returned"]
    /\ ret' = [ret EXCEPT ![a] = r]
    /\ item' = [item EXCEPT ![a] = Uninit]
    /\ solo' = 0

\* no other actor can take a step
Alone(a) == threads = {a} \/ solo = a

\* back to the head of the loop; the iterations are counted while the actor
\* runs alone, where no peer can be the reason for another round
Again(a, label) ==
    /\ pc' = [pc EXCEPT ![a] = label]
    /\ iters' = [iters EXCEPT ![a] = IF Alone(a) THEN @ + 1 ELSE @]

(***************************************************************************)
(* enqueue                                                                 *)
(***************************************************************************)
\* the call, and `let mut pos = enqueue_pos.load(Relaxed)`
EnqCall(a, v) ==
    /\ MayStep(a)
    /\ pc[a] = "idle"
    /\ enqueue_pos < limit
    /\ v \in inputs
    /\ pos' = [pos EXCEPT ![a] = enqueue_pos]
    /\ item' = [item EXCEPT ![a] = v]
    /\ pc' = [pc EXCEPT ![a] = "e_seq"]
    /\ iters' = [iters EXCEPT ![a] = 0]
    /\ ret' = [ret EXCEPT ![a] = Pending]
    /\ IF Sequential
       THEN IF Len(ref) < N
            THEN ref' = Append(ref, v) /\ expect' = RetOk
            ELSE ref' = ref /\ expect' = RetErr(v)
       ELSE UNCHANGED <<ref, expect>>
    /\ UNCHANGED <<Config, enqueue_pos, dequeue_pos, sequence, data, solo,
                   live, outstanding, unclaimed>>
    /\ Observe
    /\ Fresh(a)
    /\ UNCHANGED written

\* the sequence load, dif, and the branch on dif
EnqLoadSeq(a) ==
    /\ MayStep(a)
    /\ pc[a] = "e_seq"
    /\ iters[a] <= MaxIters
    /\ LET dif == EnqDif(sequence[CellOf(pos[a])], pos[a]) IN
         IF dif = 0
         THEN /\ pc' = [pc EXCEPT ![a] = "e_cas"]
              /\ UNCHANGED <<ret, item, solo>>
         ELSE IF dif < 0
         THEN Return(a, RetErr(item[a]))
         ELSE /\ pc' = [pc EXCEPT ![a] = "e_reload"]
              /\ UNCHANGED <<ret, item, solo>>
    /\ UNCHANGED <<Config, enqueue_pos, dequeue_pos, sequence, data, pos,
                   iters, live, outstanding, unclaimed, ref, expect>>
    /\ Observe
    /\ Did(a, "none")
    /\ UNCHANGED written

\* enqueue_pos.compare_exchange_weak(pos, pos.wrapping_add(1), ..)
EnqCas(a) ==
    /\ MayStep(a)
    /\ pc[a] = "e_cas"
    /\ IF enqueue_pos = pos[a]
       THEN /\ enqueue_pos' = WrappingAdd(pos[a], 1)
            /\ pc' = [pc EXCEPT ![a] = "e_write"]
            /\ Did(a, "cas")
            /\ UNCHANGED iters
       ELSE /\ Again(a, "e_seq")
            /\ Did(a, "none")
            /\ UNCHANGED enqueue_pos
    /\ UNCHANGED <<Config, dequeue_pos, sequence, data, pos, item, ret, solo,
                   live, outstanding, unclaimed, ref, expect>>
    /\ Observe
    /\ UNCHANGED written

\* pos = enqueue_pos.load(Relaxed)
EnqReload(a) ==
    /\ MayStep(a)
    /\ pc[a] = "e_reload"
    /\ pos' = [pos EXCEPT ![a] = enqueue_pos]
    /\ Again(a, "e_seq")
    /\ UNCHANGED <<Config, enqueue_pos, dequeue_pos, sequence, data, item, ret,
                   solo, live, outstanding, unclaimed, ref, expect>>
    /\ Observe
    /\ Did(a, "none")
    /\ UNCHANGED written

\* (*cell).data.as_mut_ptr().write(item)
EnqWrite(a) ==
    /\ MayStep(a)
    /\ pc[a] = "e_write"
    /\ data' = [data EXCEPT ![CellOf(pos[a])] = item[a]]
    /\ live' = [live EXCEPT ![CellOf(pos[a])] = TRUE]
    /\ pc' = [pc EXCEPT ![a] = "e_store"]
    /\ UNCHANGED <<Config, enqueue_pos, dequeue_pos, sequence, pos, item, iters,
                   ret, solo, outstanding, unclaimed, ref, expect>>
    /\ Observe
    /\ Did(a, "data")
    /\ written' = {w \in written : w[1] # pos[a]} \cup {<<pos[a], item[a]>>}

\* (*cell).sequence.store(pos.wrapping_add(1), Release); Ok(())
EnqStore(a) ==
    /\ MayStep(a)
    /\ pc[a] = "e_store"
    /\ sequence' = [sequence EXCEPT ![CellOf(pos[a])] = WrappingAdd(pos[a], 1)]
    /\ outstanding' = [outstanding EXCEPT ![item[a]] = @ + 1]
    /\ unclaimed' = unclaimed + 1
    /\ Return(a, RetOk)
    /\ UNCHANGED <<Config, enqueue_pos, dequeue_pos, data, pos, iters, live,
                   ref, expect>>
    /\ Observe
    /\ Did(a, "seq")
    /\ UNCHANGED written

(***************************************************************************)
(* dequeue                                                                 *)
(***************************************************************************)
\* the call, and `let mut pos = dequeue_pos.load(Relaxed)`
DeqCall(a) ==
    /\ MayStep(a)
    /\ pc[a] = "idle"
    /\ dequeue_pos < deqLimit
    /\ pos' = [pos EXCEPT ![a] = dequeue_pos]
    /\ pc' = [pc EXCEPT ![a] = "d_seq"]
    /\ iters' = [iters EXCEPT ![a] = 0]
    /\ ret' = [ret EXCEPT ![a] = Pending]
    /\ IF Sequential
       THEN IF Len(ref) > 0
            THEN ref' = Tail(ref) /\ expect' = RetSome(Head(ref))
            ELSE ref' = ref /\ expect' = RetNone
       ELSE UNCHANGED <<ref, expect>>
    /\ UNCHANGED <<Config, enqueue_pos, dequeue_pos, sequence, data, item, solo,
                   live, outstanding, unclaimed>>
    /\ Observe
    /\ Fresh(a)
    /\ UNCHANGED written

\* the sequence load, dif, and the branch on dif
DeqLoadSeq(a) ==
    /\ MayStep(a)
    /\ pc[a] = "d_seq"
    /\ iters[a] <= MaxIters
    /\ LET dif == DeqDif(sequence[CellOf(pos[a])], pos[a]) IN
         IF dif = 0
         THEN /\ pc' = [pc EXCEPT ![a] = "d_cas"]
              /\ UNCHANGED <<ret, item, solo>>
         ELSE IF dif < 0
         THEN Return(a, RetNone)
         ELSE /\ pc' = [pc EXCEPT ![a] = "d_reload"]
              /\ UNCHANGED <<ret, item, solo>>
    /\ UNCHANGED <<Config, enqueue_pos, dequeue_pos, sequence, data, pos,
                   iters, live, outstanding, unclaimed, ref, expect>>
    /\ Observe
    /\ Did(a, "none")
    /\ UNCHANGED written

\* dequeue_pos.compare_exchange_weak(pos, pos.wrapping_add(1), ..)
DeqCas(a) ==
    /\ MayStep(a)
    /\ pc[a] = "d_cas"
    /\ IF dequeue_pos = pos[a]
       THEN /\ dequeue_pos' = WrappingAdd(pos[a], 1)
            /\ unclaimed' = unclaimed - 1
            /\ pc' = [pc EXCEPT ![a] = "d_read"]
            /\ Did(a, "cas")
            /\ UNCHANGED iters
       ELSE /\ Again(a, "d_seq")
            /\ Did(a, "none")
            /\ UNCHANGED <<dequeue_pos, unclaimed>>
    /\ UNCHANGED <<Config, enqueue_pos, sequence, data, pos, item, ret, solo,
                   live, outstanding, ref, expect>>
    /\ Observe
    /\ UNCHANGED written

\* pos = dequeue_pos.load(Relaxed)
DeqReload(a) ==
    /\ MayStep(a)
    /\ pc[a] = "d_reload"
    /\ pos' = [pos EXCEPT ![a] = dequeue_pos]
    /\ Again(a, "d_seq")
    /\ UNCHANGED <<Config, enqueue_pos, dequeue_pos, sequence, data, item, ret,
                   solo, live, outstanding, unclaimed, ref, expect>>
    /\ Observe
    /\ Did(a, "none")
    /\ UNCHANGED written

\* let data = (*cell).data.as_ptr().read(): the bits stay in the cell; reading
\* a cell that was never written yields any value
DeqRead(a) ==
    /\ MayStep(a)
    /\ pc[a] = "d_read"
    /\ \E v \in Values :
         /\ data[CellOf(pos[a])] \in {v, Uninit}
         /\ item' = [item EXCEPT ![a] = v]
    /\ live' = [live EXCEPT ![CellOf(pos[a])] = FALSE]
    /\ pc' = [pc EXCEPT ![a] = "d_store"]
    /\ UNCHANGED <<Config, enqueue_pos, dequeue_pos, sequence, data, pos, iters,
                   ret, solo, outstanding, unclaimed, ref, expect>>
    /\ Observe
    /\ Did(a, "data")
    /\ UNCHANGED written

\* a dequeue that hands the value out and forgets to republish the cell
DeqStoreNoRepublish(a) ==
    /\ MayStep(a)
    /\ pc[a] = "d_store"
    /\ outstanding' = [outstanding EXCEPT ![item[a]] = @ - 1]
    /\ Return(a, RetSome(item[a]))
    /\ UNCHANGED <<Config, enqueue_pos, dequeue_pos, sequence, data, pos, iters,
                   live, unclaimed, ref, expect>>
    /\ Observe
    /\ Did(a, "none")
    /\ written' = {w \in written : w[1] # pos[a]}

\* (*cell).sequence.store(pos.wrapping_add(mask).wrapping_add(1), Release);
\* Some(data)
DeqStore(a) ==
    /\ MayStep(a)
    /\ pc[a] = "d_store"
    /\ sequence' = [sequence EXCEPT ![CellOf(pos[a])] =
                       WrappingAdd(WrappingAdd(pos[a], MASK), 1)]
    /\ outstanding' = [outstanding EXCEPT ![item[a]] = @ - 1]
    /\ Return(a, RetSome(item[a]))
    /\ UNCHANGED <<Config, enqueue_pos, dequeue_pos, data, pos, iters, live,
                   unclaimed, ref, expect>>
    /\ Observe
    /\ Did(a, "seq")
    /\ written' = {w \in written : w[1] # pos[a]}

(***************************************************************************)
(* The caller and the scheduler.                                           *)
(***************************************************************************)
\* the caller takes the result and is ready for its next call
Resume(a) ==
    /\ MayStep(a)
    /\ pc[a] = "returned"
    /\ pc' = [pc EXCEPT ![a] = "idle"]
    /\ ret' = [ret EXCEPT ![a] = NoRet]
    /\ iters' = [iters EXCEPT ![a] = 0]
    /\ expect' = NoRet
    /\ UNCHANGED <<Config, enqueue_pos, dequeue_pos, sequence, data, pos, item,
                   solo, live, outstanding, unclaimed, ref>>
    /\ Observe
    /\ Fresh(a)
    /\ UNCHANGED written

\* from any point of a call, every other actor may stay paused until that call
\* returns
Pause(a) ==
    /\ a \in threads
    /\ solo = 0
    /\ pc[a] \notin {"idle", "returned"}
    /\ solo' = a
    /\ UNCHANGED <<Config, enqueue_pos, dequeue_pos, sequence, data, pc, pos,
                   item, iters, ret, live, outstanding, unclaimed, sawEmpty, sawFull,
                   effects, written, ref, expect>>

Step(a) ==
    \/ \E v \in Values : EnqCall(a, v)
    \/ EnqLoadSeq(a)
    \/ EnqCas(a)
    \/ EnqReload(a)
    \/ EnqWrite(a)
    \/ EnqStore(a)
    \/ DeqCall(a)
    \/ DeqLoadSeq(a)
    \/ DeqCas(a)
    \/ DeqReload(a)
    \/ DeqRead(a)
    \/ DeqStore(a)
    \/ Resume(a)

Next == \E a \in Actors : Step(a) \/ Pause(a)

NextSeq == \E a \in Actors : Step(a)

Spec == Init /\ [][Next]_vars

SpecSeq == InitSeq /\ [][NextSeq]_vars

(***************************************************************************)
(* Vocabulary of the properties.                                           *)
(***************************************************************************)
EnqPcs == {"e_seq", "e_cas", "e_reload", "e_write", "e_store"}
DeqPcs == {"d_seq", "d_cas", "d_reload", "d_read", "d_store"}

IsPowerOfTwo(n) == n >= 1 /\ BitAnd(n, n - 1) = 0

\* between the claim-CAS and the sequence store
InWindow(a) == pc[a] \in {"e_write", "e_store", "d_read", "d_store"}

Quiescent == \A a \in Actors : pc[a] \in {"idle", "returned"}

Returned(a, kind) == pc[a] = "returned" /\ ret[a].kind = kind

\* the cells between the two positions hold the reference FIFO's values
StoredIsRef ==
    \A i \in 1..Len(ref) :
        /\ live[CellOf(dequeue_pos + i - 1)]
        /\ data[CellOf(dequeue_pos + i - 1)] = ref[i]

(***************************************************************************)
(* C1: conservation.  No value has been returned by dequeue more often     *)
(* than enqueue accepted it, and once every call has returned and every    *)
(* claimed position has been consumed, each value has been returned as     *)
(* often as it was accepted.                                               *)
(***************************************************************************)
C1_Conservation ==
    /\ \A v \in Values : outstanding[v] >= 0
    /\ Quiescent /\ enqueue_pos = dequeue_pos
          => \A v \in Values : outstanding[v] = 0

(***************************************************************************)
(* C2: slot mutual exclusion.  No two actors are between their claim-CAS   *)
(* and their sequence store on the same cell.                              *)
(***************************************************************************)
C2_SlotMutualExclusion ==
    \A a, b \in Actors :
        a # b /\ InWindow(a) /\ InWindow(b) => CellOf(pos[a]) # CellOf(pos[b])

(***************************************************************************)
(* C3: sequential FIFO.  Used by one actor, a queue of a power-of-two      *)
(* capacity N returns from every call, after one round of the loop, what   *)
(* the reference FIFO of capacity N returns.                               *)
(***************************************************************************)
C3_SequentialFifo ==
    \A a \in Actors :
        threads = {a} /\ IsPowerOfTwo(N)
          => /\ iters[a] = 0
             /\ pc[a] = "returned" => ret[a] = expect

(***************************************************************************)
(* C4: capacity bound.  On a fresh queue of a power-of-two capacity N used *)
(* by one actor, the first N enqueues return Ok, and the next one returns  *)
(* Err with the value it was given, after one round of the loop and with   *)
(* the N stored values intact.                                             *)
(***************************************************************************)
C4_CapacityBound ==
    \A a \in Actors :
        threads = {a} /\ IsPowerOfTwo(N) /\ dequeue_pos = 0
          => /\ pc[a] \in EnqPcs => iters[a] = 0
             /\ Returned(a, "Ok") => enqueue_pos <= N
             /\ Returned(a, "Ok") \/ Returned(a, "Err") => ret[a] = expect
             /\ Returned(a, "Err") => enqueue_pos = N /\ StoredIsRef

(***************************************************************************)
(* C5: non-blocking progress.  A call that runs while every other actor is *)
(* paused returns within MaxIters rounds of its loop.  (Running alone the  *)
(* call is deterministic and the shared state is frozen: it reloads `pos`  *)
(* at most once to a new value, so a call that goes round more often       *)
(* repeats a state and never returns.)                                     *)
(***************************************************************************)
C5_NonBlocking == \A a \in Actors : solo = a => iters[a] <= MaxIters

(***************************************************************************)
(* C6: a dequeue returns None only if, at some instant between its call    *)
(* and its return, every value accepted by an enqueue had been claimed by  *)
(* a dequeue.                                                              *)
(***************************************************************************)
C6_NoneOnlyIfEmpty == \A a \in Actors : Returned(a, "None") => sawEmpty[a]

(***************************************************************************)
(* C7: an enqueue returns Err only if, at some instant between its call    *)
(* and its return, the queue held N values (N accepted values not yet      *)
(* returned by a dequeue, or the two positions N apart).                   *)
(***************************************************************************)
C7_ErrOnlyIfFull == \A a \in Actors : Returned(a, "Err") => sawFull[a]

(***************************************************************************)
(* C8: wraparound stability of empty detection.  On a capacity-2 queue     *)
(* used by one actor, a dequeue that finds the two positions equal (k      *)
(* enqueue/dequeue cycles done, for every k up to WrapLimit) does one      *)
(* sequence load and returns None: it claims nothing, never goes round     *)
(* the loop again and returns no stale value.                              *)
(***************************************************************************)
C8_DrainAfterWrap ==
    \A a \in Actors :
        threads = {a} /\ N = 2 /\ pos[a] = enqueue_pos
          => /\ pc[a] \in DeqPcs => pc[a] = "d_seq" /\ iters[a] = 0
             /\ ~Returned(a, "Some")

\* the dequeue after 255 cycles (test drain_at_pos255) has returned None
C8_Witness ==
    \E a \in Actors :
        /\ threads = {a} /\ N = 2
        /\ Returned(a, "None")
        /\ pos[a] = 255 /\ enqueue_pos = 255 /\ dequeue_pos = 255

(***************************************************************************)
(* C9: wraparound stability of full detection.  On a capacity-2 queue used *)
(* by one actor, at every pair of positions up to WrapLimit, an enqueue    *)
(* that finds fewer than 2 positions in use claims its position in one     *)
(* round, writes an empty cell and returns Ok; an enqueue that finds 2 in  *)
(* use does one sequence load and returns Err with the value it was given, *)
(* claiming nothing and leaving both stored values in place.               *)
(***************************************************************************)
C9_FullAfterWrap ==
    \A a \in Actors :
        threads = {a} /\ N = 2
          => /\ pc[a] \in EnqPcs => iters[a] = 0 /\ pc[a] # "e_reload"
             /\ pc[a] \in EnqPcs /\ pos[a] - dequeue_pos >= 2 => pc[a] = "e_seq"
             /\ pc[a] = "e_write" => ~live[CellOf(pos[a])]
             /\ Returned(a, "Ok")
                   => pos[a] - dequeue_pos < 2 /\ enqueue_pos = pos[a] + 1
             /\ Returned(a, "Err")
                   => /\ pos[a] - dequeue_pos = 2
                      /\ enqueue_pos = pos[a]
                      /\ ret[a] = expect
                      /\ StoredIsRef

\* after 254 cycles and two more enqueues (test full_at_wrapped_pos0) the
\* third enqueue has returned Err(0)
C9_Witness ==
    \E a \in Actors :
        /\ threads = {a} /\ N = 2
        /\ Returned(a, "Err") /\ ret[a].val = 0
        /\ dequeue_pos = 254 /\ enqueue_pos = 256

(***************************************************************************)
(* C10: empty-queue determinism.  On a queue of a power-of-two capacity    *)
(* used by one actor, a dequeue called when every accepted value has been  *)
(* returned (a fresh queue included) does one sequence load and returns    *)
(* None, and leaves the queue as it was, so that the next dequeue does the *)
(* same.                                                                   *)
(***************************************************************************)
Drained == \A v \in Values : outstanding[v] = 0

C10_EmptyDeterminism ==
    \A a \in Actors :
        threads = {a} /\ IsPowerOfTwo(N)
          => /\ pc[a] \in DeqPcs /\ Drained => pc[a] = "d_seq" /\ iters[a] = 0
             /\ Returned(a, "Some") => \A v \in Values : outstanding[v] >= 0
             /\ Returned(a, "None") /\ Drained
                   => /\ enqueue_pos = pos[a] /\ dequeue_pos = pos[a]
                      /\ \A i \in 0..(N - 1) : ~live[i]

\* a dequeue on a queue that was used and drained has returned None
C10_Witness ==
    \E a \in Actors :
        /\ threads = {a} /\ IsPowerOfTwo(N) /\ N >= 4
        /\ Returned(a, "None") /\ Drained
        /\ dequeue_pos >= 1

(***************************************************************************)
(* C11.  No partial failure: a call that returned Err or None has made no  *)
(* successful CAS, touched no cell's storage and stored no sequence; a call *)
(* that returned Ok or Some has made exactly one CAS, one storage access   *)
(* and one sequence store; a call between its claim-CAS and its sequence   *)
(* store has not returned, and has made the CAS and not yet the store.     *)
(***************************************************************************)
OneOfEach == [cas |-> 1, data |-> 1, seq |-> 1]

C11_NoPartialFailure ==
    \A a \in Actors :
        /\ (Returned(a, "Err") \/ Returned(a, "None")) => effects[a] = NoEffect
        /\ (Returned(a, "Ok") \/ Returned(a, "Some")) => effects[a] = OneOfEach
        /\ InWindow(a) =>
              /\ ret[a] = Pending
              /\ effects[a].cas = 1 /\ effects[a].seq = 0
        /\ effects[a].seq = 1 => pc[a] = "returned"

\* one actor's call failed and the other's dequeue succeeded, both just back
C11_Witness ==
    \E a, b \in Actors :
        /\ Returned(a, "Err") /\ Returned(b, "Some")
        /\ enqueue_pos >= N /\ dequeue_pos >= 1

\* the steps that load and compare change nothing of the queue, and the
\* steps that do change one thing each
StepsChangeOneThing ==
    [][\A a \in Actors :
          /\ (pc[a] \in {"idle", "e_seq", "e_reload", "d_seq", "d_reload",
                          "returned"} /\ pc'[a] # pc[a])
                => UNCHANGED <<enqueue_pos, dequeue_pos, sequence, data, live>>
          /\ (pc[a] \in {"e_cas", "d_cas"} /\ pc'[a] # pc[a])
                => /\ UNCHANGED <<sequence, data, live>>
                   /\ effects'[a].cas = effects[a].cas
                        + (enqueue_pos' - enqueue_pos)
                        + (dequeue_pos' - dequeue_pos)
          /\ (pc[a] \in {"e_write", "d_read"} /\ pc'[a] # pc[a])
                => UNCHANGED <<enqueue_pos, dequeue_pos, sequence>>
          /\ (pc[a] \in {"e_store", "d_store"} /\ pc'[a] # pc[a])
                => /\ UNCHANGED <<enqueue_pos, dequeue_pos, data, live>>
                   /\ \E i \in DOMAIN sequence :
                         \A j \in DOMAIN sequence \ {i} :
                             sequence'[j] = sequence[j]]_vars

(***************************************************************************)
(* C12.  A capacity that is not a power of two is rejected at construction: *)
(* no queue of such a capacity exists for a call to be made on.            *)
(***************************************************************************)
C12_ConstructionRejects ==
    (\E a \in Actors : pc[a] # "idle") => IsPowerOfTwo(N)

(***************************************************************************)
(* C13.  Narrow comparison soundness: whenever an actor is about to load a *)
(* cell's sequence and compare it with its position, the sign of the 8-bit *)
(* signed difference the code computes is the sign of the difference of    *)
(* the full-width values (sequence - pos for enqueue, sequence - (pos + 1) *)
(* for dequeue).                                                           *)
(***************************************************************************)
Sign(x) == IF x < 0 THEN -1 ELSE IF x > 0 THEN 1 ELSE 0

C13_NarrowComparisonSound ==
    IsPowerOfTwo(N) =>
        \A a \in Actors :
            /\ pc[a] = "e_seq" =>
                  Sign(EnqDif(sequence[CellOf(pos[a])], pos[a]))
                      = Sign(sequence[CellOf(pos[a])] - pos[a])
            /\ pc[a] = "d_seq" =>
                  Sign(DeqDif(sequence[CellOf(pos[a])], pos[a]))
                      = Sign(sequence[CellOf(pos[a])] - (pos[a] + 1))

\* the same on the capacities whose full queue is less than 2^7 positions
\* behind, for a caller that is not delayed
NarrowComparisonSoundBelow128 == N < 128 => C13_NarrowComparisonSound

(***************************************************************************)
(* C14.  Retry after a lost CAS: an actor whose CAS on the position        *)
(* counter failed starts its next loop iteration with the counter's        *)
(* current value as its position, in enqueue and in dequeue alike.         *)
(***************************************************************************)
C14_RereadAfterLostCas ==
    [][\A a \in Actors :
          /\ (pc[a] = "e_cas" /\ pc'[a] = "e_seq") => pos'[a] = enqueue_pos'
          /\ (pc[a] = "d_cas" /\ pc'[a] = "d_seq") => pos'[a] = dequeue_pos']_vars

(***************************************************************************)
(* C15.  Position pairing: a consumer that claimed dequeue position p and  *)
(* has read its value holds the value that the producer of enqueue         *)
(* position p wrote; no two producers and no two consumers hold a claim on *)
(* the same position, and a claimed position lies behind its counter.      *)
(***************************************************************************)
Producing(a) == pc[a] \in {"e_write", "e_store"}

Consuming(a) == pc[a] \in {"d_read", "d_store"}

C15_PositionPairing ==
    IsPowerOfTwo(N) =>
        /\ \A a \in Actors :
              /\ pc[a] = "d_store" => <<pos[a], item[a]>> \in written
              /\ Producing(a) => pos[a] < enqueue_pos
              /\ Consuming(a) => pos[a] < dequeue_pos
        /\ \A a, b \in Actors :
              /\ (a # b /\ Producing(a) /\ Producing(b)) => pos[a] # pos[b]
              /\ (a # b /\ Consuming(a) /\ Consuming(b)) => pos[a] # pos[b]

(***************************************************************************)
(* C16.  Position counters: each step leaves enqueue_pos and dequeue_pos   *)
(* where they were or moves one of them up by 1, the move being the        *)
(* successful CAS of an actor whose position was the counter's value; and  *)
(* 0 <= enqueue_pos - dequeue_pos <= N after every step.                   *)
(***************************************************************************)
GapInBounds(e, d) == 0 <= e - d /\ e - d <= N

C16_PositionCounters ==
    [][IsPowerOfTwo(N) =>
          /\ enqueue_pos' \in {enqueue_pos, enqueue_pos + 1}
          /\ dequeue_pos' \in {dequeue_pos, dequeue_pos + 1}
          /\ enqueue_pos' # enqueue_pos =>
                \E a \in Actors : /\ pc[a] = "e_cas" /\ pc'[a] = "e_write"
                                  /\ pos[a] = enqueue_pos
          /\ dequeue_pos' # dequeue_pos =>
                \E a \in Actors : /\ pc[a] = "d_cas" /\ pc'[a] = "d_read"
                                  /\ pos[a] = dequeue_pos
          /\ GapInBounds(enqueue_pos', dequeue_pos')]_vars

(***************************************************************************)
(* C17.  Slot sequences: while no position has been claimed, slot i has    *)
(* sequence i and empty storage; after every step slot i's sequence is p   *)
(* or p + 1 for a position p with p mod N = i, and is not less than it was *)
(* before the step.                                                        *)
(***************************************************************************)
Cells == 0..(N - 1)

\* s is p or p + 1 for some position p of cell i
SequenceOfCell(s, i) == s % N = i \/ (s >= 1 /\ (s - 1) % N = i)

C17_SlotSequences ==
    [][IsPowerOfTwo(N) =>
          /\ (enqueue_pos = 0 /\ dequeue_pos = 0) =>
                \A i \in Cells : sequence[i] = i /\ ~live[i]
          /\ \A i \in Cells :
                /\ SequenceOfCell(sequence'[i], i)
                /\ sequence'[i] >= sequence[i]]_vars

(***************************************************************************)
(* C18.  Storage validity at access: a consumer about to read its cell     *)
(* finds a written value that no consumer has read, and a producer about   *)
(* to write its cell finds it empty.                                       *)
(***************************************************************************)
C18_StorageValidAtAccess ==
    IsPowerOfTwo(N) =>
        \A a \in Actors :
            /\ pc[a] = "d_read" =>
                  /\ live[CellOf(pos[a])]
                  /\ data[CellOf(pos[a])] # Uninit
            /\ pc[a] = "e_write" => ~live[CellOf(pos[a])]

(***************************************************************************)
(* C19.  Republish ordering: an actor stores its cell's sequence only      *)
(* after its access to the cell's storage.  A consumer holding a claim on  *)
(* position p finds the sequence p + 1 that the producer of p stored, and  *)
(* no producer still inside its claim on that cell; a producer holding a   *)
(* claim on position q finds the sequence q, which is what the consumer of *)
(* position q - N stored, and no consumer still inside its claim on that   *)
(* cell.                                                                   *)
(***************************************************************************)
SameCell(a, b) == CellOf(pos[a]) = CellOf(pos[b])

C19_RepublishOrdering ==
    IsPowerOfTwo(N) =>
        \A a \in Actors :
            /\ pc[a] \in {"e_store", "d_store"} => effects[a].data = 1
            /\ effects[a].seq = 1 => effects[a].data = 1
            /\ Consuming(a) =>
                  /\ sequence[CellOf(pos[a])] = pos[a] + 1
                  /\ \A b \in Actors : Producing(b) => ~SameCell(a, b)
            /\ Producing(a) =>
                  /\ sequence[CellOf(pos[a])] = pos[a]
                  /\ pos[a] >= N => dequeue_pos > pos[a] - N
                  /\ \A b \in Actors : Consuming(b) => ~SameCell(a, b)

(***************************************************************************)
(* What holds of the shared queues of capacity 2 and more, where the       *)
(* sequences of successive positions of a cell differ.                     *)
(***************************************************************************)
ConservationFromTwo == N >= 2 => C1_Conservation

MutualExclusionFromTwo == N >= 2 => C2_SlotMutualExclusion

PositionPairingFromTwo == N >= 2 => C15_PositionPairing

StorageValidFromTwo == N >= 2 => C18_StorageValidAtAccess

RepublishOrderingFromTwo == N >= 2 => C19_RepublishOrdering

SlotSequencesFromTwo ==
    [][(N >= 2 /\ IsPowerOfTwo(N)) =>
          \A i \in Cells : /\ SequenceOfCell(sequence'[i], i)
                           /\ sequence'[i] >= sequence[i]]_vars

PositionCountersFromTwo ==
    [][(N >= 2 /\ IsPowerOfTwo(N)) =>
          /\ enqueue_pos' \in {enqueue_pos, enqueue_pos + 1}
          /\ dequeue_pos' \in {dequeue_pos, dequeue_pos + 1}
          /\ GapInBounds(enqueue_pos', dequeue_pos')]_vars

TypeOK ==
    /\ enqueue_pos \in Nat /\ dequeue_pos \in Nat
    /\ \A i \in 0..(N - 1) : sequence[i] \in Nat /\ data[i] \in Values \cup {Uninit}
    /\ \A a \in Actors : iters[a] <= MaxIters + 1
    /\ \A a \in Actors : \A k \in {"cas", "data", "seq"} : effects[a][k] \in 0..1
    /\ written \subseteq (Nat \X Values)

====
